---- MODULE Spec2Model ----
(***************************************************************************)
(* Snippetbox: the three HTTP handlers (home, snippetView, snippetCreate), *)
(* the router, the render helper and the snippet store they call.          *)
(*                                                                         *)
(* Strings that the code parses, formats or matches by prefix are          *)
(* sequences of one-character (or one-token) strings.  A request is in     *)
(* flight from the moment its handler has validated it until the store     *)
(* executes its single statement; requests in different slots interleave.  *)
(***************************************************************************)
EXTENDS Integers, Sequences, FiniteSets, TLC

\* ------------------------------------------------------------------ bounds
MaxRows == 2            \* rows the table may hold under Spec
MaxDay == 7             \* last day of the clock under Spec
MaxLatestRows == 12     \* rows the table may hold under SpecLatest
MaxLatestDay == 7       \* last day of the clock under SpecLatest
MidWeek == 3            \* the day of each week, besides its first, the clock shows

\* -------------------------------------------------------- program constants
StatusOK == 200
StatusMovedPermanently == 301
StatusSeeOther == 303
StatusNotFound == 404
StatusMethodNotAllowed == 405
StatusInternalServerError == 500
ExpiryDays == 7         \* expires := 7
LatestLimit == 10       \* LIMIT of the list-latest statement

Slots == {1, 2}

\* ------------------------------------------------------------ text helpers
Digits == <<"0", "1", "2", "3", "4", "5", "6", "7", "8", "9">>

IsDigit(c) == \E d \in 0..9 : Digits[d + 1] = c

DigitVal(c) == CHOOSE d \in 0..9 : Digits[d + 1] = c

RECURSIVE ParseDigits(_, _)
ParseDigits(s, acc) ==
    IF s = <<>> THEN acc
    ELSE ParseDigits(Tail(s), acc * 10 + DigitVal(Head(s)))

\* strconv.Atoi: an optional sign, then one or more decimal digits.
\* (Its range error needs a numeral of 19 digits or more; IdStrings holds none.)
Atoi(s) ==
    LET signed == s # <<>> /\ Head(s) \in {"+", "-"}
        body == IF signed THEN Tail(s) ELSE s
    IN  IF body = <<>> \/ (\E i \in 1..Len(body) : ~IsDigit(body[i]))
        THEN [val |-> 0, err |-> TRUE]
        ELSE [val |-> IF signed /\ Head(s) = "-"
                      THEN 0 - ParseDigits(body, 0)
                      ELSE ParseDigits(body, 0),
              err |-> FALSE]

RECURSIVE FormatNat(_)
FormatNat(n) ==
    IF n < 10 THEN <<Digits[n + 1]>>
    ELSE Append(FormatNat(n \div 10), Digits[(n % 10) + 1])

\* The %d verb of fmt.Sprintf.
FormatInt(n) == IF n < 0 THEN <<"-">> \o FormatNat(0 - n) ELSE FormatNat(n)

IsPrefix(p, s) == Len(p) <= Len(s) /\ SubSeq(s, 1, Len(p)) = p

\* ---------------------------------------------------------------- requests
Root == <<"/">>
StaticTree == <<"/", "static", "/">>
ViewPath == <<"/", "snippet", "/", "view">>
CreatePath == <<"/", "snippet", "/", "create">>

Paths ==
    { Root, <<"/", "home">>, <<"/", "static">>, <<"/", "static", "/", "main.css">>,
      ViewPath, ViewPath \o <<"/">>, CreatePath }

NoQuery == [has |-> FALSE, id |-> <<>>]

IdStrings ==
    { <<>>, <<"a">>, <<"-">>, <<"0">>, <<"-", "1">>, <<"1", "a">>,
      <<"1">>, <<"2">>, <<"3">>, <<"+", "1">> }

Requests ==
    { [method |-> "GET", path |-> p, query |-> NoQuery] : p \in Paths }
    \cup { [method |-> "GET", path |-> ViewPath, query |-> [has |-> TRUE, id |-> s]] :
             s \in IdStrings }
    \cup { [method |-> m, path |-> CreatePath, query |-> NoQuery] :
             m \in {"POST", "PUT"} }

LatestRequests ==
    { [method |-> "GET", path |-> Root, query |-> NoQuery],
      [method |-> "POST", path |-> CreatePath, query |-> NoQuery] }

\* r.URL.Query().Get("id"): the empty string when the parameter is absent.
QueryGet(q) == IF q.has THEN q.id ELSE <<>>

NoURL == [path |-> <<>>, id |-> <<>>]

\* Mutant: the location names the row before the one inserted.
ViewURL_OffByOne(id) == [path |-> ViewPath, id |-> FormatInt(id - 1)]

\* fmt.Sprintf("/snippet/view?id=%d", id)
ViewURL(id) == [path |-> ViewPath, id |-> FormatInt(id)]

\* ------------------------------------------------------------------ router
Patterns ==
    { [pat |-> StaticTree, h |-> "fileServer"],
      [pat |-> Root, h |-> "home"],
      [pat |-> ViewPath, h |-> "snippetView"],
      [pat |-> CreatePath, h |-> "snippetCreate"] }

\* A pattern ending in "/" names a subtree, any other pattern one path.
Matches(pat, path) ==
    IF pat[Len(pat)] = "/" THEN IsPrefix(pat, path) ELSE pat = path

\* The handler the ServeMux built by routes() picks: the longest matching
\* pattern, or a redirect to path + "/" when only that is registered.
routes(path) ==
    LET ms == { p \in Patterns : Matches(p.pat, path) }
        best == CHOOSE p \in ms : \A q \in ms : Len(q.pat) <= Len(p.pat)
    IN  IF (\A p \in Patterns : p.pat # path)
           /\ (\E p \in Patterns : p.pat = Append(path, "/"))
        THEN "redirect"
        ELSE best.h

\* ----------------------------------------------------------- response writer
NoData == [Snippet |-> <<>>, Snippets |-> <<>>]

NewWriter ==
    [status |-> 0, allow |-> "", location |-> NoURL, page |-> "",
     data |-> NoData, body |-> <<>>, renderErr |-> ""]

\* Only the first WriteHeader of a response sets its status.
WriteHeader(w, code) == IF w.status # 0 THEN w ELSE [w EXCEPT !.status = code]

\* http.Error: status line, then the status text as body.
Error(w, code) == [WriteHeader(w, code) EXCEPT !.body = Append(@, "error")]

serverError(w) == Error(w, StatusInternalServerError)

clientError(w, status) == Error(w, status)

notFound(w) == clientError(w, StatusNotFound)

\* http.Redirect
Redirect(w, url, code) == WriteHeader([w EXCEPT !.location = url], code)

\* -------------------------------------------------------------- templates
Pages == {"home.html", "view.html"}

\* One template set per page file, keyed by the file's base name.
newTemplateCache == Pages

templateCache == newTemplateCache

render(w, status, page, data, execErr) ==
    IF page \notin templateCache
    THEN serverError([w EXCEPT !.renderErr = "missing"])
    ELSE LET w1 == WriteHeader(w, status)
             w2 == [w1 EXCEPT !.page = page, !.data = data,
                              !.body = Append(@, IF execErr THEN "partial" ELSE "page")]
         IN  IF execErr THEN serverError([w2 EXCEPT !.renderErr = "exec"]) ELSE w2

\* ------------------------------------------------------------------- store
\* Insert: a new row under the next identifier, created now, expiring
\* `expires` days later.
Insert(table, today, title, content, expires) ==
    Append(table, [id |-> Len(table) + 1, title |-> title, content |-> content,
                   created |-> today, expires |-> today + expires])

\* Get: the row with that identifier whose expiry is in the future.
Get(table, today, id) ==
    LET hit == { i \in 1..Len(table) : table[i].id = id /\ table[i].expires > today }
    IN  IF hit = {} THEN [err |-> "ErrNoRecord", snippet |-> <<>>]
        ELSE [err |-> "nil", snippet |-> <<table[CHOOSE i \in hit : TRUE]>>]

RECURSIVE LiveNewestFirst(_, _)
LiveNewestFirst(table, today) ==
    IF table = <<>> THEN <<>>
    ELSE LET n == Len(table)
             rest == LiveNewestFirst(SubSeq(table, 1, n - 1), today)
         IN  IF table[n].expires > today THEN <<table[n]>> \o rest ELSE rest

\* Latest: the newest live rows, newest first, at most LatestLimit of them.
Latest(table, today) ==
    LET live == LiveNewestFirst(table, today)
    IN  IF Len(live) > LatestLimit THEN SubSeq(live, 1, LatestLimit) ELSE live
\* ---------------------------------------------------------------- handlers
\* Each handler is split at its one store call: the part before it yields
\* the call it is about to make (none when it has already answered), the part
\* after it turns the store's result into the response.

Done(w) == [call |-> "", id |-> 0, w |-> w]

Calls(call, id, w) == [call |-> call, id |-> id, w |-> w]

\* Mutant: the check of the path is missing.
home_NoPathCheck(w, r) == Calls("Latest", 0, w)

\* home, up to the store call.
home(w, r) ==
    IF r.path # Root THEN Done(notFound(w))
    ELSE Calls("Latest", 0, w)

\* Mutant: the list is not put into the envelope.
homeLatest_EmptyEnvelope(w, err, snippets, execErr) ==
    IF err # "nil" THEN serverError(w)
    ELSE render(w, StatusOK, "home.html", NoData, execErr)

\* home, from the store's answer on.
homeLatest(w, err, snippets, execErr) ==
    IF err # "nil" THEN serverError(w)
    ELSE render(w, StatusOK, "home.html", [NoData EXCEPT !.Snippets = snippets], execErr)

\* Mutant: only the conversion is checked, not id < 1.
snippetView_NoRangeCheck(w, r) ==
    LET parsed == Atoi(QueryGet(r.query))
    IN  IF parsed.err THEN Done(notFound(w))
        ELSE Calls("Get", parsed.val, w)

\* snippetView, up to the store call.
snippetView(w, r) ==
    LET parsed == Atoi(QueryGet(r.query))
    IN  IF parsed.err \/ parsed.val < 1 THEN Done(notFound(w))
        ELSE Calls("Get", parsed.val, w)

\* Mutant: ErrNoRecord is not told apart from the other errors.
snippetViewGet_NoRecordAs500(w, err, snippet, execErr) ==
    IF err # "nil" THEN serverError(w)
    ELSE render(w, StatusOK, "view.html", [NoData EXCEPT !.Snippet = snippet], execErr)

\* snippetView, from the store's answer on.
snippetViewGet(w, err, snippet, execErr) ==
    IF err # "nil"
    THEN IF err = "ErrNoRecord" THEN notFound(w) ELSE serverError(w)
    ELSE render(w, StatusOK, "view.html", [NoData EXCEPT !.Snippet = snippet], execErr)

\* Mutant: the Allow header is not set.
snippetCreate_NoAllow(w, r) ==
    IF r.method # "POST" THEN Done(clientError(w, StatusMethodNotAllowed))
    ELSE Calls("Insert", 0, w)

\* Mutant: the return after the 405 is missing.
snippetCreate_NoReturn(w, r) ==
    IF r.method # "POST"
    THEN Calls("Insert", 0, clientError([w EXCEPT !.allow = "POST"], StatusMethodNotAllowed))
    ELSE Calls("Insert", 0, w)

\* snippetCreate, up to the store call.
snippetCreate(w, r) ==
    IF r.method # "POST"
    THEN Done(clientError([w EXCEPT !.allow = "POST"], StatusMethodNotAllowed))
    ELSE Calls("Insert", 0, w)

\* The dummy data snippetCreate inserts.
Title == "O snail"
Content == "O snail\nClimb Mount Fuji,\nBut slowly, slowly!\n\n- Kobayashi Issa"

\* Mutant: the return after serverError is missing.
snippetCreateInsert_NoReturn(w, err, id) ==
    Redirect(IF err # "nil" THEN serverError(w) ELSE w, ViewURL(id), StatusSeeOther)

\* Mutant: the id Insert returned is shadowed and the redirect uses a zero one.
snippetCreateInsert_ShadowedId(w, err, id) ==
    IF err # "nil" THEN serverError(w)
    ELSE Redirect(w, ViewURL(0), StatusSeeOther)

\* snippetCreate, from the store's answer on.
snippetCreateInsert(w, err, id) ==
    IF err # "nil" THEN serverError(w)
    ELSE Redirect(w, ViewURL(id), StatusSeeOther)

\* ------------------------------------------------------------------- state
VARIABLES
    rows,       \* the snippets table, in insertion order
    now,        \* the store's clock, in days
    inflight,   \* per slot: the request whose handler awaits its store call
    out,        \* the response completed by the last step, if it completed one
    creates     \* history: what each successful Insert wrote and was answered

vars == <<rows, now, inflight, out, creates>>

IdleReq == [method |-> "", path |-> <<>>, query |-> NoQuery]

\* began: how many rows the table held when a create arrived (history).
Idle == [pc |-> "idle", req |-> IdleReq, id |-> 0, w |-> NewWriter, began |-> 0]

NoRet == [id |-> 0, snippet |-> <<>>, snippets |-> <<>>]

NoOut ==
    [some |-> FALSE, req |-> IdleReq, handler |-> "", calls |-> <<>>,
     err |-> "nil", ret |-> NoRet, w |-> NewWriter]

Response(r, h, calls, err, ret, w) ==
    [some |-> TRUE, req |-> r, handler |-> h, calls |-> calls,
     err |-> err, ret |-> ret, w |-> w]

Init ==
    /\ rows = <<>>
    /\ now = 0
    /\ inflight = [s \in Slots |-> Idle]
    /\ out = NoOut
    /\ creates = <<>>

\* Handler h takes request r in the first free slot, s, and runs up to its
\* store call (first is what that part of h yields).
Begin(s, r, h, first) ==
    /\ inflight[s].pc = "idle"
    /\ \A t \in Slots : t < s => inflight[t].pc # "idle"
    /\ IF first.call = ""
       THEN /\ out' = Response(r, h, <<>>, "nil", NoRet, first.w)
            /\ UNCHANGED inflight
       ELSE /\ inflight' = [inflight EXCEPT
                              ![s] = [pc |-> first.call, req |-> r, id |-> first.id,
                                      w |-> first.w,
                                      began |-> IF first.call = "Insert"
                                                THEN Len(rows) ELSE 0]]
            /\ out' = NoOut
    /\ UNCHANGED <<rows, now, creates>>

\* The requests the router hands to handler h.
RoutedTo(h) == { r \in Requests : routes(r.path) = h }

HomeRequests == RoutedTo("home")
ViewRequests == RoutedTo("snippetView")
CreateRequests == RoutedTo("snippetCreate")
StaticRequests == RoutedTo("fileServer")
RedirectRequests == RoutedTo("redirect")

\* A request arrives and the router hands it to the handler of its path.
ServeHome(s, r) ==
    /\ routes(r.path) = "home"
    /\ Begin(s, r, "home", home(NewWriter, r))

ServeView(s, r) ==
    /\ routes(r.path) = "snippetView"
    /\ Begin(s, r, "snippetView", snippetView(NewWriter, r))

ServeCreate(s, r) ==
    /\ routes(r.path) = "snippetCreate"
    /\ Begin(s, r, "snippetCreate", snippetCreate(NewWriter, r))

\* The store runs Latest for the request in slot s and home finishes.
CallLatest(s, fault, execErr) ==
    /\ inflight[s].pc = "Latest"
    /\ LET err == IF fault THEN "StorageError" ELSE "nil"
           snippets == IF fault THEN <<>> ELSE Latest(rows, now)
       IN  out' = Response(inflight[s].req, "home", <<"Latest">>, err,
                           [NoRet EXCEPT !.snippets = snippets],
                           homeLatest(inflight[s].w, err, snippets, execErr))
    /\ inflight' = [inflight EXCEPT ![s] = Idle]
    /\ UNCHANGED <<rows, now, creates>>

\* The store runs Get for the request in slot s and snippetView finishes.
CallGet(s, fault, execErr) ==
    /\ inflight[s].pc = "Get"
    /\ LET got == IF fault THEN [err |-> "StorageError", snippet |-> <<>>]
                  ELSE Get(rows, now, inflight[s].id)
       IN  out' = Response(inflight[s].req, "snippetView", <<"Get">>, got.err,
                           [NoRet EXCEPT !.snippet = got.snippet],
                           snippetViewGet(inflight[s].w, got.err, got.snippet, execErr))
    /\ inflight' = [inflight EXCEPT ![s] = Idle]
    /\ UNCHANGED <<rows, now, creates>>

\* The store runs Insert for the request in slot s and snippetCreate finishes.
CallInsert(s, fault, maxRows) ==
    /\ inflight[s].pc = "Insert"
    /\ fault \/ Len(rows) < maxRows
    /\ LET table == Insert(rows, now, Title, Content, ExpiryDays)
           id == table[Len(table)].id
       IN  IF fault
           THEN /\ out' = Response(inflight[s].req, "snippetCreate", <<"Insert">>,
                                   "StorageError", NoRet,
                                   snippetCreateInsert(inflight[s].w, "StorageError", 0))
                /\ UNCHANGED <<rows, creates>>
           ELSE /\ rows' = table
                /\ out' = Response(inflight[s].req, "snippetCreate", <<"Insert">>,
                                   "nil", [NoRet EXCEPT !.id = id],
                                   snippetCreateInsert(inflight[s].w, "nil", id))
                /\ creates' =
                     Append(creates,
                            [row |-> Len(table), title |-> Title, content |-> Content,
                             day |-> now, began |-> inflight[s].began,
                             location |-> snippetCreateInsert(inflight[s].w, "nil", id).location])
    /\ inflight' = [inflight EXCEPT ![s] = Idle]
    /\ UNCHANGED now

\* The file server under /static/: the file's bytes or a not-found page.
fileServer(w, found) ==
    IF found THEN WriteHeader(w, StatusOK) ELSE Error(w, StatusNotFound)

ServeStatic(s, r, found) ==
    /\ routes(r.path) = "fileServer"
    /\ Begin(s, r, "fileServer", Done(fileServer(NewWriter, found)))

\* The ServeMux's own redirect of a subtree's root asked for without its slash.
ServeRedirect(s, r) ==
    /\ routes(r.path) = "redirect"
    /\ Begin(s, r, "redirect",
             Done(Redirect(NewWriter, [path |-> Append(r.path, "/"), id |-> <<>>],
                           StatusMovedPermanently)))

\* The days on which the clock is read: the first and the MidWeek-th day of
\* every expiry window, so that a row is seen young, old and just expired.
ClockDays(maxDay) == { d \in 0..maxDay : d % ExpiryDays \in {0, MidWeek} }

\* Time passes.
Tick(maxDay) ==
    /\ \E d \in ClockDays(maxDay) : d > now /\ now' = d
    /\ out' = NoOut
    /\ UNCHANGED <<rows, inflight, creates>>

Next ==
    \/ \E s \in Slots, r \in HomeRequests : ServeHome(s, r)
    \/ \E s \in Slots, fault \in BOOLEAN, execErr \in BOOLEAN : CallLatest(s, fault, execErr)
    \/ \E s \in Slots, r \in ViewRequests : ServeView(s, r)
    \/ \E s \in Slots, fault \in BOOLEAN, execErr \in BOOLEAN : CallGet(s, fault, execErr)
    \/ \E s \in Slots, r \in CreateRequests : ServeCreate(s, r)
    \/ \E s \in Slots, fault \in BOOLEAN : CallInsert(s, fault, MaxRows)
    \/ \E s \in Slots, r \in StaticRequests, found \in BOOLEAN : ServeStatic(s, r, found)
    \/ \E s \in Slots, r \in RedirectRequests : ServeRedirect(s, r)
    \/ Tick(MaxDay)

Spec == Init /\ [][Next]_vars

\* The same application with one request at a time and a table large enough
\* for Latest's limit to cut.
NextLatest ==
    \/ \E r \in LatestRequests : ServeHome(1, r)
    \/ \E fault \in BOOLEAN, execErr \in BOOLEAN : CallLatest(1, fault, execErr)
    \/ \E r \in LatestRequests : ServeCreate(1, r)
    \/ \E fault \in BOOLEAN : CallInsert(1, fault, MaxLatestRows)
    \/ Tick(MaxLatestDay)

SpecLatest == Init /\ [][NextLatest]_vars

\* ================================================================== claims
\* What the claims say about text, stated apart from the code's parser.
IsNumeral(s) ==
    /\ s # <<>>
    /\ LET body == IF s[1] \in {"+", "-"} THEN Tail(s) ELSE s
       IN  body # <<>> /\ \A i \in 1..Len(body) : IsDigit(body[i])

RECURSIVE Pow10(_)
Pow10(k) == IF k = 0 THEN 1 ELSE 10 * Pow10(k - 1)

RECURSIVE PlaceSum(_, _)
PlaceSum(body, i) ==
    IF i > Len(body) THEN 0
    ELSE DigitVal(body[i]) * Pow10(Len(body) - i) + PlaceSum(body, i + 1)

NumeralValue(s) ==
    IF s[1] = "-" THEN 0 - PlaceSum(Tail(s), 1)
    ELSE IF s[1] = "+" THEN PlaceSum(Tail(s), 1)
    ELSE PlaceSum(s, 1)

\* The id parameter is absent, no decimal integer, or an integer below 1.
BadId(r) ==
    \/ ~r.query.has
    \/ ~IsNumeral(r.query.id)
    \/ NumeralValue(r.query.id) < 1

\* url is /snippet/view?id=n, n written in plain decimal.
IsViewURLOf(url, n) ==
    /\ url.path = ViewPath
    /\ IsNumeral(url.id)
    /\ url.id[1] \notin {"+", "-"}
    /\ NumeralValue(url.id) = n

LiveRows(id) == { i \in 1..Len(rows) : rows[i].id = id /\ rows[i].expires > now }

\* C1: a view request whose id parameter is absent, not a decimal integer, or
\* an integer below 1 is answered 404, and no such request ever reaches the
\* store's Get.
C1_BadIdIsNotFound ==
    /\ (out.some /\ out.handler = "snippetView" /\ BadId(out.req))
         => (out.w.status = StatusNotFound /\ out.calls = <<>>)
    /\ \A s \in Slots :
         (inflight[s].pc # "idle" /\ inflight[s].req.path = ViewPath)
           => ~BadId(inflight[s].req)

C1_Witness ==
    /\ out.some /\ out.handler = "snippetView"
    /\ out.req.query = [has |-> TRUE, id |-> <<"0">>]
    /\ out.w.status = StatusNotFound

\* C2: a view request with a valid id calls Get once and is answered by its
\* outcome: 500 on a store fault, 404 when no row with that id has its expiry
\* in the future, and otherwise 200 from the "view" page given exactly that row.
C2_ViewFollowsGet ==
    (out.some /\ out.handler = "snippetView" /\ ~BadId(out.req)) =>
        LET live == LiveRows(NumeralValue(out.req.query.id))
        IN  /\ out.calls = <<"Get">>
            /\ out.err = "StorageError" => out.w.status = StatusInternalServerError
            /\ (out.err # "StorageError" /\ live = {}) =>
                 (out.err = "ErrNoRecord" /\ out.w.status = StatusNotFound)
            /\ (out.err # "StorageError" /\ live # {}) =>
                 /\ out.err = "nil"
                 /\ out.w.status = StatusOK
                 /\ out.w.page = "view.html"
                 /\ \E i \in live :
                      /\ out.ret.snippet = <<rows[i]>>
                      /\ out.w.data = [Snippet |-> <<rows[i]>>, Snippets |-> <<>>]

\* An expired row is asked for and reported as not found.
C2_Witness ==
    /\ out.some /\ out.handler = "snippetView" /\ ~BadId(out.req)
    /\ out.w.status = StatusNotFound
    /\ \E i \in 1..Len(rows) :
         /\ rows[i].id = NumeralValue(out.req.query.id)
         /\ rows[i].expires = now

\* C3: a request to the create handler with any method but POST is answered
\* 405 with the header Allow: POST, and no such request reaches Insert.
C3_NonPostIs405 ==
    /\ (out.some /\ out.handler = "snippetCreate" /\ out.req.method # "POST")
         => /\ out.w.status = StatusMethodNotAllowed
            /\ out.w.allow = "POST"
            /\ out.calls = <<>>
    /\ \A s \in Slots : inflight[s].pc = "Insert" => inflight[s].req.method = "POST"

C3_Witness ==
    /\ out.some /\ out.handler = "snippetCreate" /\ out.req.method = "PUT"
    /\ out.w.status = StatusMethodNotAllowed
    /\ rows # <<>>

\* C4: a POST to the create handler calls Insert; when Insert returns n the
\* answer is 303 to /snippet/view?id=n, n being the row just inserted; when
\* Insert fails the answer is 500 and carries no location.
C4_CreateRedirects ==
    (out.some /\ out.handler = "snippetCreate" /\ out.req.method = "POST") =>
        /\ out.calls = <<"Insert">>
        /\ out.err = "nil" =>
             /\ out.w.status = StatusSeeOther
             /\ IsViewURLOf(out.w.location, out.ret.id)
             /\ rows # <<>> /\ rows[Len(rows)].id = out.ret.id
        /\ out.err # "nil" =>
             /\ out.w.status = StatusInternalServerError
             /\ out.w.location = NoURL

C4_Witness ==
    /\ out.some /\ out.handler = "snippetCreate"
    /\ out.w.status = StatusSeeOther
    /\ out.ret.id = 2

\* C5: a view of the location a successful create answered with, made before
\* the row's ExpiryDays have passed and without a store fault, is answered 200
\* with a snippet holding the title and content that create inserted, whatever
\* other requests ran in between.
C5_CreateThenView ==
    (out.some /\ out.handler = "snippetView" /\ out.err # "StorageError") =>
        \A k \in 1..Len(creates) :
            ( /\ out.req.path = creates[k].location.path
              /\ out.req.query = [has |-> TRUE, id |-> creates[k].location.id]
              /\ now < creates[k].day + ExpiryDays )
            => /\ out.w.status = StatusOK
               /\ Len(out.w.data.Snippet) = 1
               /\ out.w.data.Snippet[1].title = creates[k].title
               /\ out.w.data.Snippet[1].content = creates[k].content

\* The first of two creates is viewed days later while another create waits.
C5_Witness ==
    /\ out.some /\ out.handler = "snippetView" /\ out.w.status = StatusOK
    /\ Len(creates) = 2
    /\ out.req.query = [has |-> TRUE, id |-> creates[1].location.id]
    /\ now > creates[1].day
    /\ \E s \in Slots : inflight[s].pc = "Insert"

\* C6: a request the router hands to home whose path is not exactly "/" is
\* answered 404 and never reaches Latest; home answers 200 only for "/".
C6_HomeOnlyRoot ==
    /\ (out.some /\ out.handler = "home" /\ out.req.path # Root)
         => (out.w.status = StatusNotFound /\ out.calls = <<>>)
    /\ (out.some /\ out.handler = "home" /\ out.w.status = StatusOK)
         => out.req.path = Root
    /\ \A s \in Slots : inflight[s].pc = "Latest" => inflight[s].req.path = Root

C6_Witness ==
    /\ out.some /\ out.handler = "home"
    /\ out.req.path = ViewPath \o <<"/">>
    /\ out.w.status = StatusNotFound

\* C7: whatever the interleaving of create requests, no two successful creates
\* are answered with the same identifier, and each is redirected to the row
\* its own Insert wrote.
C7_DistinctIds ==
    /\ \A i, j \in 1..Len(creates) :
         i # j => creates[i].location # creates[j].location
    /\ \A i \in 1..Len(creates) :
         /\ creates[i].row \in 1..Len(rows)
         /\ IsViewURLOf(creates[i].location, rows[creates[i].row].id)

\* Two creates overlapped: the second to insert arrived before the first did.
C7_Witness ==
    /\ Len(creates) = 2
    /\ creates[1].began = 0
    /\ creates[2].began = 0

\* C8: Latest returns at most LatestLimit rows, all with their expiry in the
\* future, newest first, and they are the newest live rows (none when there are
\* none); home answers 200 from the "home" page given that list as it is.
C8_LatestNewestTen ==
    LET l == Latest(rows, now)
        live == { i \in 1..Len(rows) : rows[i].expires > now }
        taken == { i \in live : \E k \in 1..Len(l) : l[k] = rows[i] }
    IN  /\ Len(l) <= LatestLimit
        /\ \A k \in 1..Len(l) : l[k].expires > now
        /\ \A k \in 1..Len(l) : \E i \in live : l[k] = rows[i]
        /\ \A j, k \in 1..Len(l) :
             j < k => (l[j].created >= l[k].created /\ l[j].id # l[k].id)
        /\ Len(l) = IF Cardinality(live) > LatestLimit THEN LatestLimit
                    ELSE Cardinality(live)
        /\ \A i \in live \ taken : \A k \in 1..Len(l) : rows[i].created <= l[k].created
        /\ (out.some /\ out.handler = "home" /\ out.calls = <<"Latest">> /\ out.err = "nil")
             => /\ out.w.status = StatusOK
                /\ out.w.page = "home.html"
                /\ out.ret.snippets = l
                /\ out.w.data = [Snippet |-> <<>>, Snippets |-> l]

\* Twelve rows, one expired, eleven live from two different days: the page
\* shows ten of them.
C8_Witness ==
    /\ out.some /\ out.handler = "home" /\ out.w.status = StatusOK
    /\ Len(out.w.data.Snippets) = LatestLimit
    /\ out.w.data.Snippets[1].created # out.w.data.Snippets[LatestLimit].created
    /\ \E i \in 1..Len(rows) : rows[i].expires <= now
    /\ Cardinality({ i \in 1..Len(rows) : rows[i].expires > now }) > LatestLimit

\* C9: every render fault, a page missing from the cache as well as a failing
\* execution of its "base" template, reaches the client as status 500.
C9_RenderFaultIs500 ==
    (out.some /\ out.w.renderErr # "") => out.w.status = StatusInternalServerError

\* C10: the table changes only in the step in which a POST create's Insert
\* succeeds, which appends one row; every other step leaves it as it is, and
\* no row already stored is ever changed or removed.
C10_OnlyCreateWrites ==
    [][ LET created == /\ out'.some
                       /\ out'.handler = "snippetCreate"
                       /\ out'.req.method = "POST"
                       /\ out'.err = "nil"
        IN  /\ rows' # rows => created
            /\ created => Len(rows') = Len(rows) + 1
            /\ Len(rows') >= Len(rows)
            /\ SubSeq(rows', 1, Len(rows)) = rows ]_vars

\* A failed create, after one that succeeded, has left the table alone.
C10_Witness ==
    /\ out.some /\ out.handler = "snippetCreate"
    /\ out.err = "StorageError"
    /\ Len(rows) = 1

====
